---- MODULE Spec2Model ----
(***************************************************************************)
(* Model of the dino memory allocator (type Memory []*Process): worst-fit  *)
(* search, Allocate, AllocateWorstFit and ReleaseProcess over a fixed      *)
(* address space of N cells that hold pointers to Process objects.         *)
(***************************************************************************)
EXTENDS Integers, Sequences, FiniteSets, TLC

\* ------------------------------------------------------------------ bounds
N == 4              \* len(m): number of cells of the address space
NumProcs == 2       \* number of Process objects the callers hold
MaxSize == 2        \* largest SizeInKB of a process

\* ------------------------------------------------------- program constants
\* Largest value of Go's int on a 32-bit build; on a 64-bit build the same
\* wrap-around happens at 2^63 - 1.
MaxInt == 2147483647
MinInt == (-MaxInt) - 1

NIL == 0                        \* the nil *Process
Ptrs == 1..NumProcs             \* the Process objects (pointer identities)
Cells == 0..(N - 1)             \* the indexes of m

\* The error values, one per errors.New / panic site of the source.
NoErr == "nil"
ErrNilProcess == "Cannot allocate -- nil process"
ErrAlreadyAllocated == "Cannot allocate -- process already in memory"
ErrNegativeStart == "Cannot allocate -- start index should be non-negative"
ErrOutOfMemoryBound == "Cannot allocate -- out of memory bound"
ErrSpaceOccupied == "Cannot allocate -- space already occupied"
ErrAllocMissingID == "Cannot allocate -- please assign a (unique) ID"
ErrInsufficientSpace == "There's not enough contiguous free space"
ErrReleaseMissingID == "Please assign a (unique) ID"
ErrUnsafeDelete == "Unsafe delete"
PanicUnsafeDelete == "panic: Unsafe delete"
PanicNilDeref == "panic: nil pointer dereference"

OutOfBounds == {ErrNegativeStart, ErrOutOfMemoryBound}
Panics == {PanicUnsafeDelete, PanicNilDeref}

VARIABLES
    mem,        \* m: Cells -> Ptrs \cup {NIL}
    procs,      \* the Process objects: ID, SizeInKB, IsAllocated, MemoryAddress
    call,       \* the last call made: op, p, start, size
    ret,        \* what the last call returned: err, released, start, offset
    preMem,     \* m as it was when the last call began
    preProcs,   \* the Process objects as they were when the last call began
    freed,      \* SpecRec: processes released with success, not allocated since
    pend,       \* per caller: the Allocate it is in, between check and return
    raced       \* some call began while another caller was inside Allocate

vars == <<mem, procs, call, ret, preMem, preProcs, freed, pend, raced>>

\* ------------------------------------------------------------- arithmetic
\* a + b on Go's int: two's complement, wrapping.
AddInt(a, b) ==
    IF b >= 0
    THEN IF a > MaxInt - b THEN (a - MaxInt - 1) + (b - MaxInt - 1) ELSE a + b
    ELSE IF a < MinInt - b THEN (a + MaxInt + 1) + (b + MaxInt + 1) ELSE a + b

\* The indexes visited by `for i := start; i < end; i++`.
LoopRange(start, end) == {i \in Cells : start <= i /\ i < end}

\* ------------------------------------------------------------- WorstFit
\* The comparison of WorstFit with ties going to the later run.
BetterMutTie(currentSize, bestSize) == currentSize >= bestSize

Better(currentSize, bestSize) == currentSize > bestSize

WFInit ==
    [bestStart |-> -1, bestSize |-> 0,
     currentStart |-> -1, currentSize |-> 0, previousWasEmpty |-> FALSE]

WFTakeBest(s) ==
    IF Better(s.currentSize, s.bestSize)
    THEN [s EXCEPT !.bestStart = s.currentStart, !.bestSize = s.currentSize]
    ELSE s

WFStep(m, s, i) ==
    IF m[i] = NIL
    THEN IF s.previousWasEmpty = FALSE
         THEN [s EXCEPT !.currentStart = i, !.currentSize = 1,
                        !.previousWasEmpty = TRUE]
         ELSE [s EXCEPT !.currentSize = @ + 1]
    ELSE IF s.previousWasEmpty = TRUE
         THEN WFTakeBest([s EXCEPT !.previousWasEmpty = FALSE])
         ELSE s

RECURSIVE WFScan(_, _, _)
WFScan(m, s, i) ==
    IF i \notin DOMAIN m THEN s ELSE WFScan(m, WFStep(m, s, i), i + 1)

\* WorstFit without the comparison that follows the loop.
WorstFitMutNoTail(m, sizeToFit) ==
    LET s == WFScan(m, WFInit, 0)
    IN  [start |-> s.bestStart, offset |-> s.bestSize,
         err |-> IF sizeToFit > s.bestSize THEN ErrInsufficientSpace ELSE NoErr]

WorstFit(m, sizeToFit) ==
    LET s == WFTakeBest(WFScan(m, WFInit, 0))
    IN  [start |-> s.bestStart, offset |-> s.bestSize,
         err |-> IF sizeToFit > s.bestSize THEN ErrInsufficientSpace ELSE NoErr]

HasSpace(m, size) == WorstFit(m, size).err = NoErr

\* --------------------------------------------------- checkBounds, isEmpty
checkBounds(start, offset) ==
    IF start < 0 THEN ErrNegativeStart
    ELSE IF AddInt(start, offset) > N THEN ErrOutOfMemoryBound
    ELSE NoErr

isEmpty(m, start, offset) ==
    IF checkBounds(start, offset) # NoErr THEN FALSE
    ELSE \A i \in LoopRange(start, AddInt(start, offset)) : m[i] = NIL

\* ---------------------------------------------------------------- Allocate
\* The write loop stopping one cell early.
AllocWriteMutShort(m, p, start, size) ==
    [i \in Cells |->
        IF i \in LoopRange(start, AddInt(start, size) - 1) THEN p ELSE m[i]]

\* The cells written by `for i := start; i < start+p.SizeInKB; i++ { m[i] = p }`.
AllocWrite(m, p, start, size) ==
    [i \in Cells |->
        IF i \in LoopRange(start, AddInt(start, size)) THEN p ELSE m[i]]

\* Allocate with the ID looked at only after the cells are written.
AllocateMutLateIDCheck(m, ps, p, start) ==
    IF p = NIL
    THEN [mem |-> m, procs |-> ps, err |-> ErrNilProcess]
    ELSE IF ps[p].IsAllocated
    THEN [mem |-> m, procs |-> ps, err |-> ErrAlreadyAllocated]
    ELSE IF checkBounds(start, ps[p].SizeInKB) # NoErr
    THEN [mem |-> m, procs |-> ps, err |-> checkBounds(start, ps[p].SizeInKB)]
    ELSE IF ~isEmpty(m, start, ps[p].SizeInKB)
    THEN [mem |-> m, procs |-> ps, err |-> ErrSpaceOccupied]
    ELSE [mem |-> AllocWrite(m, p, start, ps[p].SizeInKB),
          procs |-> [ps EXCEPT ![p].IsAllocated = TRUE,
                               ![p].MemoryAddress = start],
          err |-> IF ps[p].ID = "" THEN ErrAllocMissingID ELSE NoErr]

\* Allocate without the ID check.
AllocateMutNoIDCheck(m, ps, p, start) ==
    IF p = NIL
    THEN [mem |-> m, procs |-> ps, err |-> ErrNilProcess]
    ELSE IF ps[p].IsAllocated
    THEN [mem |-> m, procs |-> ps, err |-> ErrAlreadyAllocated]
    ELSE IF checkBounds(start, ps[p].SizeInKB) # NoErr
    THEN [mem |-> m, procs |-> ps, err |-> checkBounds(start, ps[p].SizeInKB)]
    ELSE IF ~isEmpty(m, start, ps[p].SizeInKB)
    THEN [mem |-> m, procs |-> ps, err |-> ErrSpaceOccupied]
    ELSE [mem |-> AllocWrite(m, p, start, ps[p].SizeInKB),
          procs |-> [ps EXCEPT ![p].IsAllocated = TRUE,
                               ![p].MemoryAddress = start],
          err |-> NoErr]

Allocate(m, ps, p, start) ==
    IF p = NIL
    THEN [mem |-> m, procs |-> ps, err |-> ErrNilProcess]
    ELSE IF ps[p].IsAllocated
    THEN [mem |-> m, procs |-> ps, err |-> ErrAlreadyAllocated]
    ELSE IF checkBounds(start, ps[p].SizeInKB) # NoErr
    THEN [mem |-> m, procs |-> ps, err |-> checkBounds(start, ps[p].SizeInKB)]
    ELSE IF ~isEmpty(m, start, ps[p].SizeInKB)
    THEN [mem |-> m, procs |-> ps, err |-> ErrSpaceOccupied]
    ELSE IF ps[p].ID = ""
    THEN [mem |-> m, procs |-> ps, err |-> ErrAllocMissingID]
    ELSE [mem |-> AllocWrite(m, p, start, ps[p].SizeInKB),
          procs |-> [ps EXCEPT ![p].IsAllocated = TRUE,
                               ![p].MemoryAddress = start],
          err |-> NoErr]

AllocateWorstFit(m, ps, p) ==
    IF p = NIL
    THEN [mem |-> m, procs |-> ps, err |-> ErrNilProcess]
    ELSE LET wf == WorstFit(m, ps[p].SizeInKB)
         IN  IF wf.err # NoErr
             THEN [mem |-> m, procs |-> ps, err |-> wf.err]
             ELSE Allocate(m, ps, p, wf.start)

\* ---------------------------------------------------------- ReleaseProcess
\* The loop of ReleaseProcess clearing every cell of the range, whoever owns it.
RECURSIVE ReleaseLoopMutNoCheck(_, _, _, _, _, _)
ReleaseLoopMutNoCheck(m, ps, p, i, end, beenReleased) ==
    IF ~(i < end)
    THEN [mem |-> m, err |-> NoErr, released |-> beenReleased, done |-> TRUE]
    ELSE ReleaseLoopMutNoCheck([m EXCEPT ![i] = NIL], ps, p, i + 1, end, TRUE)

\* The loop of ReleaseProcess from index i on: m so far, and how it ended.
RECURSIVE ReleaseLoop(_, _, _, _, _, _)
ReleaseLoop(m, ps, p, i, end, beenReleased) ==
    IF ~(i < end)
    THEN [mem |-> m, err |-> NoErr, released |-> beenReleased, done |-> TRUE]
    ELSE IF m[i] = NIL
    THEN [mem |-> m, err |-> PanicNilDeref, released |-> FALSE, done |-> FALSE]
    ELSE IF ps[m[i]].ID = ps[p].ID
    THEN ReleaseLoop([m EXCEPT ![i] = NIL], ps, p, i + 1, end, TRUE)
    ELSE IF beenReleased = FALSE
    THEN [mem |-> m, err |-> ErrUnsafeDelete, released |-> FALSE, done |-> FALSE]
    ELSE [mem |-> m, err |-> PanicUnsafeDelete, released |-> FALSE, done |-> FALSE]

\* ReleaseProcess with the ID check made before the bounds check.
ReleaseProcessMutIDFirst(m, ps, p) ==
    IF p = NIL
    THEN [mem |-> m, procs |-> ps, err |-> PanicNilDeref, released |-> FALSE]
    ELSE LET start == ps[p].MemoryAddress
             offset == ps[p].SizeInKB
         IN  IF ps[p].ID = ""
             THEN [mem |-> m, procs |-> ps, err |-> ErrReleaseMissingID,
                   released |-> FALSE]
             ELSE IF checkBounds(start, offset) # NoErr
             THEN [mem |-> m, procs |-> ps, err |-> checkBounds(start, offset),
                   released |-> FALSE]
             ELSE LET r == ReleaseLoop(m, ps, p, start, AddInt(start, offset), FALSE)
                  IN  IF r.done
                      THEN [mem |-> r.mem,
                            procs |-> [ps EXCEPT ![p].IsAllocated = FALSE,
                                                 ![p].MemoryAddress = -1],
                            err |-> NoErr, released |-> r.released]
                      ELSE [mem |-> r.mem, procs |-> ps, err |-> r.err,
                            released |-> FALSE]

\* ReleaseProcess that leaves the recorded MemoryAddress as it is.
ReleaseProcessMutKeepAddress(m, ps, p) ==
    IF p = NIL
    THEN [mem |-> m, procs |-> ps, err |-> PanicNilDeref, released |-> FALSE]
    ELSE LET start == ps[p].MemoryAddress
             offset == ps[p].SizeInKB
         IN  IF checkBounds(start, offset) # NoErr
             THEN [mem |-> m, procs |-> ps, err |-> checkBounds(start, offset),
                   released |-> FALSE]
             ELSE IF ps[p].ID = ""
             THEN [mem |-> m, procs |-> ps, err |-> ErrReleaseMissingID,
                   released |-> FALSE]
             ELSE LET r == ReleaseLoop(m, ps, p, start, AddInt(start, offset), FALSE)
                  IN  IF r.done
                      THEN [mem |-> r.mem,
                            procs |-> [ps EXCEPT ![p].IsAllocated = FALSE],
                            err |-> NoErr, released |-> r.released]
                      ELSE [mem |-> r.mem, procs |-> ps, err |-> r.err,
                            released |-> FALSE]

ReleaseProcess(m, ps, p) ==
    IF p = NIL
    THEN [mem |-> m, procs |-> ps, err |-> PanicNilDeref, released |-> FALSE]
    ELSE LET start == ps[p].MemoryAddress
             offset == ps[p].SizeInKB
         IN  IF checkBounds(start, offset) # NoErr
             THEN [mem |-> m, procs |-> ps, err |-> checkBounds(start, offset),
                   released |-> FALSE]
             ELSE IF ps[p].ID = ""
             THEN [mem |-> m, procs |-> ps, err |-> ErrReleaseMissingID,
                   released |-> FALSE]
             ELSE LET r == ReleaseLoop(m, ps, p, start, AddInt(start, offset), FALSE)
                  IN  IF r.done
                      THEN [mem |-> r.mem,
                            procs |-> [ps EXCEPT ![p].IsAllocated = FALSE,
                                                 ![p].MemoryAddress = -1],
                            err |-> NoErr, released |-> r.released]
                      ELSE [mem |-> r.mem, procs |-> ps, err |-> r.err,
                            released |-> FALSE]

\* -------------------------------------------------------------- TotalFree
TotalFree(m) == Cardinality({i \in DOMAIN m : m[i] = NIL})

\* ----------------------------------------------------------------- Layout
FREE_BLOCK == "FREE"

\* The Name of the p-th process.
NameOf(p) == "P" \o ToString(p)

LayoutInit == [layout |-> <<>>, previousWasEmpty |-> FALSE, panic |-> FALSE]

\* currentBlock.Size++ : currentBlock is the block appended last.
LayoutGrow(st) ==
    IF st.panic \/ st.layout = <<>> THEN [st EXCEPT !.panic = TRUE]
    ELSE [st EXCEPT !.layout[Len(st.layout)].Size = @ + 1]

\* One iteration, with a new occupied block started only after a free cell.
LayoutStepMutNoOwnerChange(m, st, i) ==
    LayoutGrow(
        IF m[i] = NIL /\ st.previousWasEmpty = FALSE
        THEN [st EXCEPT !.layout = Append(@, [Start |-> i, Size |-> 0,
                                              Name |-> FREE_BLOCK]),
                        !.previousWasEmpty = TRUE]
        ELSE IF m[i] # NIL /\ (i = 0 \/ st.previousWasEmpty)
        THEN [st EXCEPT !.layout = Append(@, [Start |-> i, Size |-> 0,
                                              Name |-> NameOf(m[i])]),
                        !.previousWasEmpty = FALSE]
        ELSE st)

\* One iteration of the loop of Layout. m[i-1] at i = 0 and m[i].Name on a
\* free cell panic.
LayoutStep(m, st, i) ==
    LayoutGrow(
        IF m[i] = NIL /\ st.previousWasEmpty = FALSE
        THEN [st EXCEPT !.layout = Append(@, [Start |-> i, Size |-> 0,
                                              Name |-> FREE_BLOCK]),
                        !.previousWasEmpty = TRUE]
        ELSE IF m[i] # NIL /\ i = 0
        THEN [st EXCEPT !.layout = Append(@, [Start |-> i, Size |-> 0,
                                              Name |-> NameOf(m[i])]),
                        !.previousWasEmpty = FALSE]
        ELSE IF i = 0 THEN [st EXCEPT !.panic = TRUE]
        ELSE IF m[i - 1] # m[i]
        THEN IF m[i] = NIL THEN [st EXCEPT !.panic = TRUE]
             ELSE [st EXCEPT !.layout = Append(@, [Start |-> i, Size |-> 0,
                                                   Name |-> NameOf(m[i])]),
                             !.previousWasEmpty = FALSE]
        ELSE st)

RECURSIVE LayoutScan(_, _, _)
LayoutScan(m, st, i) ==
    IF i \notin DOMAIN m \/ st.panic THEN st
    ELSE LayoutScan(m, LayoutStep(m, st, i), i + 1)

\* The blocks Layout returns, or PanicNilDeref.
Layout(m) ==
    LET st == LayoutScan(m, LayoutInit, 0)
    IN  IF st.panic THEN PanicNilDeref ELSE st.layout

\* ------------------------------------------------------------ the callers
\* The start indexes callers pass to Allocate: around the address space, and
\* the largest int.
Starts == (-1..N) \cup {MaxInt}

\* The ID of the p-th well-formed process.
IdOf(p) == "p" \o ToString(p)

\* MemoryAddress of a Process that was never allocated: the sentinel -1.
FreshAddr == -1

\* MemoryAddress values a caller may have left in a descriptor.
AnyAddrs == {-1, 0, N - 1, MaxInt}

\* The sizes callers pass to the queries.
QuerySizes == 0..(N + 1)

NoCall == [op |-> "none", p |-> NIL, start |-> 0, size |-> 0]
\* What a call that is no query has in ret.out.
NoOut == "none"

NoRet == [err |-> NoErr, released |-> FALSE, start |-> 0, offset |-> 0,
          out |-> NoOut]

\* A panic ended the program (nothing in the repository recovers).
Halted == ret.err \in Panics

\* A caller that is in no Allocate.
NoPend == [active |-> FALSE, start |-> 0, i |-> 0]

\* No call made yet.
InitCalls ==
    /\ call = NoCall
    /\ ret = NoRet
    /\ preMem = mem
    /\ preProcs = procs
    /\ freed = {}
    /\ pend = [p \in Ptrs |-> NoPend]
    /\ raced = FALSE

InitCommon ==
    /\ mem = [i \in Cells |-> NIL]
    /\ InitCalls

\* Processes with unique non-empty IDs and SizeInKB >= 1, none allocated, on
\* an all-free address space.
Init ==
    /\ \E sz \in [Ptrs -> 1..MaxSize] :
          procs = [p \in Ptrs |->
                      [ID |-> IdOf(p), SizeInKB |-> sz[p],
                       IsAllocated |-> FALSE, MemoryAddress |-> FreshAddr]]
    /\ InitCommon

\* The first descriptor is whatever a caller built: its ID may be empty or
\* that of another process, its SizeInKB and recorded MemoryAddress arbitrary
\* (among them MemoryAddress 0, the zero value of a struct literal). The
\* other processes are well-formed, of sizes 2, 3, .. (up to MaxSize).
InitAny ==
    /\ \E sz1 \in 1..MaxSize, id1 \in {"", IdOf(1), IdOf(2)}, ad1 \in AnyAddrs :
          procs = [p \in Ptrs |->
                      [ID |-> IF p = 1 THEN id1 ELSE IdOf(p),
                       SizeInKB |-> IF p = 1 THEN sz1 ELSE ((p - 1) % MaxSize) + 1,
                       IsAllocated |-> FALSE,
                       MemoryAddress |-> IF p = 1 THEN ad1 ELSE FreshAddr]]
    /\ InitCommon

\* Well-formed processes of sizes 1, 2, .. (up to MaxSize), none allocated,
\* on an all-free address space.
InitMixed ==
    /\ procs = [p \in Ptrs |->
                   [ID |-> IdOf(p), SizeInKB |-> ((p - 1) % MaxSize) + 1,
                    IsAllocated |-> FALSE, MemoryAddress |-> FreshAddr]]
    /\ InitCommon

\* An address space of any length up to N and of any contents, for the
\* queries.
InitQuery ==
    /\ \E n \in 0..N : mem \in [0..(n - 1) -> Ptrs \cup {NIL}]
    /\ procs = [p \in Ptrs |->
                   [ID |-> IdOf(p), SizeInKB |-> 1,
                    IsAllocated |-> \E i \in DOMAIN mem : mem[i] = p,
                    MemoryAddress |-> FreshAddr]]
    /\ InitCalls

AllocateCall(p, start) ==
    /\ ~Halted
    /\ LET r == Allocate(mem, procs, p, start)
       IN  /\ mem' = r.mem
           /\ procs' = r.procs
           /\ ret' = [err |-> r.err, released |-> FALSE, start |-> 0, offset |-> 0,
                      out |-> NoOut]
    /\ call' = [op |-> "Allocate", p |-> p, start |-> start, size |-> 0]
    /\ preMem' = mem
    /\ preProcs' = procs
    /\ UNCHANGED <<freed, pend, raced>>

AllocateWorstFitCall(p) ==
    /\ ~Halted
    /\ LET r == AllocateWorstFit(mem, procs, p)
       IN  /\ mem' = r.mem
           /\ procs' = r.procs
           /\ ret' = [err |-> r.err, released |-> FALSE, start |-> 0, offset |-> 0,
                      out |-> NoOut]
    /\ call' = [op |-> "AllocateWorstFit", p |-> p, start |-> 0, size |-> 0]
    /\ preMem' = mem
    /\ preProcs' = procs
    /\ UNCHANGED <<freed, pend, raced>>

ReleaseProcessCall(p) ==
    /\ ~Halted
    /\ LET r == ReleaseProcess(mem, procs, p)
       IN  /\ mem' = r.mem
           /\ procs' = r.procs
           /\ ret' = [err |-> r.err, released |-> r.released,
                      start |-> 0, offset |-> 0, out |-> NoOut]
    /\ call' = [op |-> "ReleaseProcess", p |-> p, start |-> 0, size |-> 0]
    /\ preMem' = mem
    /\ preProcs' = procs
    /\ raced' = (raced \/ \E q \in Ptrs : pend[q].active)
    /\ UNCHANGED <<freed, pend>>

\* The three calls again, with the successful releases kept in freed.
AllocateCallRec(p, start) ==
    /\ ~Halted
    /\ LET r == Allocate(mem, procs, p, start)
       IN  /\ mem' = r.mem
           /\ procs' = r.procs
           /\ ret' = [NoRet EXCEPT !.err = r.err]
           /\ freed' = IF r.err = NoErr THEN freed \ {p} ELSE freed
    /\ call' = [op |-> "Allocate", p |-> p, start |-> start, size |-> 0]
    /\ preMem' = mem
    /\ preProcs' = procs
    /\ UNCHANGED <<pend, raced>>

AllocateWorstFitCallRec(p) ==
    /\ ~Halted
    /\ LET r == AllocateWorstFit(mem, procs, p)
       IN  /\ mem' = r.mem
           /\ procs' = r.procs
           /\ ret' = [NoRet EXCEPT !.err = r.err]
           /\ freed' = IF r.err = NoErr THEN freed \ {p} ELSE freed
    /\ call' = [op |-> "AllocateWorstFit", p |-> p, start |-> 0, size |-> 0]
    /\ preMem' = mem
    /\ preProcs' = procs
    /\ UNCHANGED <<pend, raced>>

ReleaseProcessCallRec(p) ==
    /\ ~Halted
    /\ LET r == ReleaseProcess(mem, procs, p)
       IN  /\ mem' = r.mem
           /\ procs' = r.procs
           /\ ret' = [NoRet EXCEPT !.err = r.err, !.released = r.released]
           /\ freed' = IF r.err = NoErr THEN freed \cup {p} ELSE freed
    /\ call' = [op |-> "ReleaseProcess", p |-> p, start |-> 0, size |-> 0]
    /\ preMem' = mem
    /\ preProcs' = procs
    /\ UNCHANGED <<pend, raced>>

\* Allocate without a lock, up to the return of an error or, the checks
\* passed, up to the first write.
AllocateBegin(p, start) ==
    /\ ~Halted
    /\ ~pend[p].active
    /\ LET r == Allocate(mem, procs, p, start)
       IN  IF r.err # NoErr
           THEN /\ ret' = [NoRet EXCEPT !.err = r.err]
                /\ call' = [op |-> "Allocate", p |-> p, start |-> start,
                            size |-> 0]
                /\ preMem' = mem
                /\ preProcs' = procs
                /\ UNCHANGED pend
           ELSE /\ pend' = [pend EXCEPT ![p] = [active |-> TRUE,
                                                start |-> start, i |-> start]]
                /\ UNCHANGED <<call, ret, preMem, preProcs>>
    /\ raced' = (raced \/ \E q \in Ptrs \ {p} : pend[q].active)
    /\ UNCHANGED <<mem, procs, freed>>

\* One iteration of the write loop of an Allocate begun: m[i] = p.
AllocateWriteCell(p) ==
    /\ ~Halted
    /\ pend[p].active
    /\ pend[p].i < AddInt(pend[p].start, procs[p].SizeInKB)
    /\ mem' = [mem EXCEPT ![pend[p].i] = p]
    /\ pend' = [pend EXCEPT ![p].i = @ + 1]
    /\ UNCHANGED <<procs, call, ret, preMem, preProcs, freed, raced>>

\* The loop done: IsAllocated, MemoryAddress and the return of no error.
AllocateReturn(p) ==
    /\ ~Halted
    /\ pend[p].active
    /\ ~(pend[p].i < AddInt(pend[p].start, procs[p].SizeInKB))
    /\ procs' = [procs EXCEPT ![p].IsAllocated = TRUE,
                              ![p].MemoryAddress = pend[p].start]
    /\ pend' = [pend EXCEPT ![p] = NoPend]
    /\ ret' = NoRet
    /\ call' = [op |-> "Allocate", p |-> p, start |-> pend[p].start, size |-> 0]
    /\ preMem' = mem
    /\ preProcs' = procs
    /\ UNCHANGED <<mem, freed, raced>>

WorstFitCall(size) ==
    /\ ~Halted
    /\ LET r == WorstFit(mem, size)
       IN  ret' = [err |-> r.err, released |-> FALSE,
                   start |-> r.start, offset |-> r.offset, out |-> NoOut]
    /\ call' = [op |-> "WorstFit", p |-> NIL, start |-> 0, size |-> size]
    /\ preMem' = mem
    /\ preProcs' = procs
    /\ UNCHANGED <<mem, procs, freed, pend, raced>>

HasSpaceCall(size) ==
    /\ ~Halted
    /\ ret' = [NoRet EXCEPT !.out = HasSpace(mem, size)]
    /\ call' = [op |-> "HasSpace", p |-> NIL, start |-> 0, size |-> size]
    /\ preMem' = mem
    /\ preProcs' = procs
    /\ UNCHANGED <<mem, procs, freed, pend, raced>>

\* A Layout that frees the cells it has reported.
LayoutCallMutClears ==
    /\ ~Halted
    /\ Layout(mem) # PanicNilDeref
    /\ ret' = [NoRet EXCEPT !.out = Layout(mem)]
    /\ call' = [op |-> "Layout", p |-> NIL, start |-> 0, size |-> 0]
    /\ preMem' = mem
    /\ preProcs' = procs
    /\ mem' = [i \in DOMAIN mem |-> NIL]
    /\ UNCHANGED <<procs, freed, pend, raced>>

LayoutCall ==
    /\ ~Halted
    /\ ret' = IF Layout(mem) = PanicNilDeref
              THEN [NoRet EXCEPT !.err = PanicNilDeref]
              ELSE [NoRet EXCEPT !.out = Layout(mem)]
    /\ call' = [op |-> "Layout", p |-> NIL, start |-> 0, size |-> 0]
    /\ preMem' = mem
    /\ preProcs' = procs
    /\ UNCHANGED <<mem, procs, freed, pend, raced>>

TotalFreeCall ==
    /\ ~Halted
    /\ ret' = [NoRet EXCEPT !.out = TotalFree(mem)]
    /\ call' = [op |-> "TotalFree", p |-> NIL, start |-> 0, size |-> 0]
    /\ preMem' = mem
    /\ preProcs' = procs
    /\ UNCHANGED <<mem, procs, freed, pend, raced>>

Next ==
    \E p \in Ptrs \cup {NIL} :
        \/ \E start \in Starts : AllocateCall(p, start)
        \/ AllocateWorstFitCall(p)
        \/ ReleaseProcessCall(p)

NextRec ==
    \E p \in Ptrs \cup {NIL} :
        \/ \E start \in Starts : AllocateCallRec(p, start)
        \/ AllocateWorstFitCallRec(p)
        \/ ReleaseProcessCallRec(p)

NextQuery ==
    \/ \E size \in QuerySizes : WorstFitCall(size) \/ HasSpaceCall(size)
    \/ LayoutCall
    \/ TotalFreeCall

\* Callers without a lock: each has its own process, and its Allocate is a
\* check followed by one step per cell written.
NextConc ==
    \E p \in Ptrs :
        \/ \E start \in Starts : AllocateBegin(p, start)
        \/ AllocateWriteCell(p)
        \/ AllocateReturn(p)
        \/ ReleaseProcessCall(p)

\* Callers who put the queries between their calls.
NextMixed == Next \/ NextQuery

Spec == Init /\ [][Next]_vars

SpecAny == InitAny /\ [][Next]_vars

SpecRec == InitAny /\ [][NextRec]_vars

SpecQuery == InitQuery /\ [][NextQuery]_vars

SpecMixed == InitMixed /\ [][NextMixed]_vars

SpecConc == Init /\ [][NextConc]_vars

\* =================================================================== claims
\* What the claims speak of, stated over the integers (no wrap-around).

\* The cells that reference process p.
Owned(m, p) == {i \in Cells : m[i] = p}

\* The cells of [addr, addr + size), and whether that range lies in [0, N).
RangeCells(addr, size) == {i \in Cells : addr <= i /\ i - addr < size}
RangeInBounds(addr, size) == addr >= 0 /\ addr <= N - size

RECURSIVE SumAllocated(_, _)
SumAllocated(ps, S) ==
    IF S = {} THEN 0
    ELSE LET p == CHOOSE q \in S : TRUE
         IN  (IF ps[p].IsAllocated THEN ps[p].SizeInKB ELSE 0)
             + SumAllocated(ps, S \ {p})

\* (s, l) is a maximal run of free cells of m.
\* len(m)
LenOf(m) == Cardinality(DOMAIN m)

IsFreeRun(m, s, l) ==
    /\ s \in DOMAIN m /\ l >= 1 /\ s + l <= LenOf(m)
    /\ \A i \in s..(s + l - 1) : m[i] = NIL
    /\ s = 0 \/ m[s - 1] # NIL
    /\ s + l = LenOf(m) \/ m[s + l] # NIL

FreeRuns(m) == {r \in (DOMAIN m) \X (1..N) : IsFreeRun(m, r[1], r[2])}

\* Length of the largest free run of m, 0 when no cell is free.
MaxFree(m) ==
    IF FreeRuns(m) = {} THEN 0
    ELSE CHOOSE l \in 1..N :
            /\ \E r \in FreeRuns(m) : r[2] = l
            /\ \A r \in FreeRuns(m) : r[2] <= l

\* Start of the earliest of the largest free runs of m (some cell is free).
EarliestLargest(m) ==
    CHOOSE s \in Cells :
        /\ <<s, MaxFree(m)>> \in FreeRuns(m)
        /\ \A r \in FreeRuns(m) : r[2] = MaxFree(m) => s <= r[1]

\* C1 (I1/I4/P1): every allocated process owns exactly the cells of
\* [MemoryAddress, MemoryAddress + SizeInKB), that range lies within [0, N),
\* and the ranges of two allocated processes do not overlap.
C1_Exclusivity ==
    /\ \A p \in Ptrs :
          procs[p].IsAllocated =>
              /\ RangeInBounds(procs[p].MemoryAddress, procs[p].SizeInKB)
              /\ Owned(mem, p)
                    = RangeCells(procs[p].MemoryAddress, procs[p].SizeInKB)
              /\ Cardinality(Owned(mem, p)) = procs[p].SizeInKB
    /\ \A p, q \in Ptrs :
          (p # q /\ procs[p].IsAllocated /\ procs[q].IsAllocated) =>
              RangeCells(procs[p].MemoryAddress, procs[p].SizeInKB)
                  \cap RangeCells(procs[q].MemoryAddress, procs[q].SizeInKB) = {}

\* C2 (I2): a process has IsAllocated true iff some cell references it.
C2_Consistency ==
    \A p \in Ptrs : procs[p].IsAllocated <=> Owned(mem, p) # {}

\* C3 (P5): TotalFree() plus the sizes of the allocated processes is N.
C3_Conservation == TotalFree(mem) + SumAllocated(procs, Ptrs) = N

\* C4 (P2), as stated: WorstFit(size) always returns the start and length of
\* a largest free run, the earliest of them, and fails exactly when that
\* length is smaller than size.
C4_WorstFitAlwaysARun ==
    call.op = "WorstFit" =>
        /\ <<ret.start, ret.offset>> \in FreeRuns(preMem)
        /\ \A r \in FreeRuns(preMem) :
              r[2] <= ret.offset /\ (r[2] = ret.offset => ret.start <= r[1])
        /\ ret.err = (IF MaxFree(preMem) < call.size
                      THEN ErrInsufficientSpace ELSE NoErr)

\* C4 (P2), amended: when some cell is free, WorstFit(size) returns the start
\* and length of the earliest of the largest free runs; when no cell is free
\* it returns start -1 and length 0; it fails with InsufficientSpace exactly
\* when the largest length (0 when no cell is free) is smaller than size, and
\* reports the same start and length on failure.
C4_WorstFit ==
    call.op = "WorstFit" =>
        /\ IF \E i \in DOMAIN preMem : preMem[i] = NIL
           THEN /\ <<ret.start, ret.offset>> \in FreeRuns(preMem)
                /\ \A r \in FreeRuns(preMem) :
                      r[2] <= ret.offset
                      /\ (r[2] = ret.offset => ret.start <= r[1])
           ELSE ret.start = -1 /\ ret.offset = 0
        /\ ret.err = (IF MaxFree(preMem) < call.size
                      THEN ErrInsufficientSpace ELSE NoErr)

\* A WorstFit call that failed on an address space with two largest free
\* runs, reporting the earlier one.
C4_Witness ==
    /\ call.op = "WorstFit"
    /\ ret.err = ErrInsufficientSpace
    /\ \E r \in FreeRuns(preMem) : r[2] = ret.offset /\ r[1] > ret.start

\* C5: for a non-nil, unallocated p with non-empty ID and SizeInKB >= 1,
\* AllocateWorstFit(p) succeeds iff the largest free run of the pre-state has
\* at least SizeInKB cells; it then places p at the start of the earliest
\* largest free run, writes exactly the cells [start, start + SizeInKB) and
\* leaves the others; otherwise it returns InsufficientSpace.
C5_AllocateWorstFit ==
    (/\ call.op = "AllocateWorstFit"
     /\ call.p # NIL
     /\ ~preProcs[call.p].IsAllocated
     /\ preProcs[call.p].ID # ""
     /\ preProcs[call.p].SizeInKB >= 1) =>
        LET p == call.p
            size == preProcs[p].SizeInKB
        IN  IF MaxFree(preMem) >= size
            THEN /\ ret.err = NoErr
                 /\ procs[p].IsAllocated
                 /\ procs[p].MemoryAddress = EarliestLargest(preMem)
                 /\ mem = [i \in Cells |->
                             IF i \in RangeCells(EarliestLargest(preMem), size)
                             THEN p ELSE preMem[i]]
            ELSE /\ ret.err = ErrInsufficientSpace
                 /\ mem = preMem

\* AllocateWorstFit succeeded on an address space with two largest free runs.
C5_Witness ==
    /\ call.op = "AllocateWorstFit"
    /\ ret.err = NoErr
    /\ \E r \in FreeRuns(preMem) :
          r[2] = MaxFree(preMem) /\ r[1] > procs[call.p].MemoryAddress

\* C6 (P3): after a successful release of an allocated process p, every cell
\* of p's range is free, p.IsAllocated is false, p.MemoryAddress is -1, the
\* call returned released = true, TotalFree() grew by p.SizeInKB and no cell
\* of another process changed.
C6_RoundTrip ==
    (/\ call.op = "ReleaseProcess"
     /\ call.p # NIL
     /\ ret.err = NoErr
     /\ preProcs[call.p].IsAllocated) =>
        LET p == call.p
            size == preProcs[p].SizeInKB
        IN  /\ \A i \in Owned(preMem, p) : mem[i] = NIL
            /\ ~procs[p].IsAllocated
            /\ procs[p].MemoryAddress = -1
            /\ ret.released = TRUE
            /\ TotalFree(mem) = TotalFree(preMem) + size
            /\ \A i \in Cells : preMem[i] # p => mem[i] = preMem[i]

\* C7: Allocate(p, start) returns the error of the first failing check among
\* nil process, already allocated, range out of [0, N), range not free,
\* empty ID, and succeeds exactly when all five pass.
C7_ValidationOrder ==
    call.op = "Allocate" =>
        LET p == call.p
            size == preProcs[p].SizeInKB
        IN  IF p = NIL THEN ret.err = ErrNilProcess
            ELSE IF preProcs[p].IsAllocated THEN ret.err = ErrAlreadyAllocated
            ELSE IF ~RangeInBounds(call.start, size) THEN ret.err \in OutOfBounds
            ELSE IF \E i \in RangeCells(call.start, size) : preMem[i] # NIL
                 THEN ret.err = ErrSpaceOccupied
            ELSE IF preProcs[p].ID = "" THEN ret.err = ErrAllocMissingID
            ELSE ret.err = NoErr

\* C8 (P6): Allocate(p, start) fails with OutOfBounds whenever start < 0 or
\* start + p.SizeInKB > N.
C8_BoundsRejection ==
    (/\ call.op = "Allocate"
     /\ call.p # NIL
     /\ ~RangeInBounds(call.start, preProcs[call.p].SizeInKB)) =>
        ret.err \in OutOfBounds

\* C9 (Scenario E), as stated: ReleaseProcess on a process with an empty ID
\* fails with MissingIdentity, whatever its MemoryAddress and SizeInKB, and
\* changes nothing.
C9_ReleaseEmptyIDAlwaysMissingIdentity ==
    (/\ call.op = "ReleaseProcess"
     /\ call.p # NIL
     /\ preProcs[call.p].ID = "") =>
        /\ ret.err = ErrReleaseMissingID
        /\ mem = preMem
        /\ procs = preProcs

\* C9 (Scenario E), amended: ReleaseProcess on a process with an empty ID
\* fails and changes nothing; the error is OutOfBounds when the recorded
\* range fails the bounds check (MemoryAddress < 0, or MemoryAddress +
\* SizeInKB, as an int sum, > N) and MissingIdentity otherwise.
C9_ReleaseEmptyID ==
    (/\ call.op = "ReleaseProcess"
     /\ call.p # NIL
     /\ preProcs[call.p].ID = "") =>
        LET addr == preProcs[call.p].MemoryAddress
            size == preProcs[call.p].SizeInKB
        IN  /\ IF addr < 0 \/ AddInt(addr, size) > N
               THEN ret.err \in OutOfBounds
               ELSE ret.err = ErrReleaseMissingID
            /\ ret.released = FALSE
            /\ mem = preMem
            /\ procs = preProcs

\* ReleaseProcess on an empty-ID process whose recorded range is out of
\* bounds, while another process is in memory.
C9_Witness ==
    /\ call.op = "ReleaseProcess"
    /\ call.p # NIL
    /\ preProcs[call.p].ID = ""
    /\ ret.err \in OutOfBounds
    /\ \E i \in Cells : mem[i] # NIL

\* C10: when ReleaseProcess(p) passes the identity and bounds validation and
\* the first cell of the recorded range is free or owned by a process with
\* another ID, it returns UnsafeRelease with released = false and changes
\* nothing.
C10_UnsafeRelease ==
    (/\ call.op = "ReleaseProcess"
     /\ call.p # NIL
     /\ preProcs[call.p].ID # ""
     /\ RangeInBounds(preProcs[call.p].MemoryAddress, preProcs[call.p].SizeInKB)
     /\ \/ preMem[preProcs[call.p].MemoryAddress] = NIL
        \/ preProcs[preMem[preProcs[call.p].MemoryAddress]].ID
              # preProcs[call.p].ID) =>
        /\ ret.err = ErrUnsafeDelete
        /\ ret.released = FALSE
        /\ mem = preMem
        /\ procs = preProcs

\* The calls that may change the address space.
Mutators == {"Allocate", "AllocateWorstFit", "ReleaseProcess"}

\* C11: whenever Allocate, AllocateWorstFit or ReleaseProcess returns an
\* error, every cell and every process field is as it was before the call.
C11_UnchangedOnError ==
    (call.op \in Mutators /\ ret.err # NoErr /\ ret.err \notin Panics) =>
        /\ mem = preMem
        /\ procs = preProcs

\* ReleaseProcess returned the unsafe-delete error while another process is
\* in memory.
C11_Witness ==
    /\ call.op = "ReleaseProcess"
    /\ ret.err = ErrUnsafeDelete
    /\ \E i \in Cells : mem[i] # NIL /\ mem[i] # call.p

\* C14 (I3): no cell is owned by a process with an empty ID, and a call of
\* Allocate, AllocateWorstFit or ReleaseProcess on a process with an empty ID
\* changes no cell.
C14_IdentityRequired ==
    /\ \A i \in Cells : mem[i] # NIL => procs[mem[i]].ID # ""
    /\ (call.op \in Mutators /\ call.p # NIL /\ preProcs[call.p].ID = "") =>
          (mem = preMem /\ ret.err # NoErr)

\* Allocate on an empty-ID process whose range was in bounds and free, while
\* another process is in memory.
C14_Witness ==
    /\ call.op = "Allocate"
    /\ call.p # NIL
    /\ preProcs[call.p].ID = ""
    /\ ret.err = ErrAllocMissingID
    /\ \E i \in Cells : mem[i] # NIL

\* C16: with unique non-empty IDs, ReleaseProcess never reaches the panic of
\* a mismatch after a cleared cell, and never stops with some cells of the
\* recorded range cleared and others not.
C16_NoPartialRelease ==
    call.op = "ReleaseProcess" =>
        /\ ret.err # PanicUnsafeDelete
        /\ \/ mem = preMem
           \/ /\ ret.err = NoErr
              /\ \A i \in RangeCells(preProcs[call.p].MemoryAddress,
                                     preProcs[call.p].SizeInKB) : mem[i] = NIL

\* A successful release of a process of two or more cells, next to another
\* process that stays in memory.
C16_Witness ==
    /\ call.op = "ReleaseProcess"
    /\ ret.err = NoErr
    /\ ret.released
    /\ Cardinality(Owned(preMem, call.p)) >= 2
    /\ \E i \in Cells : mem[i] # NIL

\* C17: in every ReleaseProcess(p), every cell that changes becomes free, was
\* owned before the call by a process whose ID equals p.ID, and lies in
\* [p.MemoryAddress, p.MemoryAddress + p.SizeInKB).
C17_ReleaseOnlyOwnID ==
    call.op = "ReleaseProcess" =>
        \A i \in Cells :
            mem[i] # preMem[i] =>
                /\ call.p # NIL
                /\ mem[i] = NIL
                /\ preMem[i] # NIL
                /\ preProcs[preMem[i]].ID = preProcs[call.p].ID
                /\ i \in RangeCells(preProcs[call.p].MemoryAddress,
                                    preProcs[call.p].SizeInKB)

\* ReleaseProcess(p) cleared cells that referenced another Process object
\* (one with p's ID).
C17_Witness ==
    /\ call.op = "ReleaseProcess"
    /\ call.p # NIL
    /\ \E i \in Cells : preMem[i] # NIL /\ preMem[i] # call.p /\ mem[i] = NIL

\* ------------------------------------------------------------- the queries
Queries == {"HasSpace", "WorstFit", "Layout", "TotalFree"}

\* The owner of the cells of a block, NIL for a free block.
BlockOwner(m, b) == m[b.Start]

\* C12: Layout returns the run-length encoding of the address space: the
\* first block starts at 0, each next block starts where the previous one
\* ends, the last block ends at the length of the address space, every block
\* has at least one cell, all its cells have one owner whose Name (or the
\* free marker) the block carries, two consecutive blocks differ in owner,
\* and an empty address space gives no block.
C12_LayoutIsRunLength ==
    call.op = "Layout" =>
        /\ ret.err = NoErr
        /\ LET L == ret.out
               n == LenOf(preMem)
           IN  /\ (n = 0) <=> (L = <<>>)
               /\ n > 0 =>
                     /\ L[1].Start = 0
                     /\ L[Len(L)].Start + L[Len(L)].Size = n
               /\ \A k \in 1..(Len(L) - 1) :
                     /\ L[k + 1].Start = L[k].Start + L[k].Size
                     /\ BlockOwner(preMem, L[k]) # BlockOwner(preMem, L[k + 1])
               /\ \A k \in 1..Len(L) :
                     /\ L[k].Size >= 1
                     /\ \A i \in L[k].Start..(L[k].Start + L[k].Size - 1) :
                           preMem[i] = BlockOwner(preMem, L[k])
                     /\ L[k].Name = IF BlockOwner(preMem, L[k]) = NIL
                                    THEN FREE_BLOCK
                                    ELSE NameOf(BlockOwner(preMem, L[k]))

\* C12 witness: Layout of an address space where a cell of one process is
\* followed by a cell of another process and some cell is free.
C12_Witness ==
    /\ call.op = "Layout"
    /\ Len(ret.out) >= 3
    /\ \E i \in DOMAIN preMem :
          /\ i + 1 \in DOMAIN preMem
          /\ preMem[i] # NIL /\ preMem[i + 1] # NIL
          /\ preMem[i] # preMem[i + 1]
    /\ \E i \in DOMAIN preMem : preMem[i] = NIL

\* Some size contiguous cells of m are free (any place holds none or fewer).
HasFreeStretch(m, size) ==
    \E s \in 0..LenOf(m) :
        /\ s + size <= LenOf(m)
        /\ \A i \in s..(s + size - 1) : m[i] = NIL

\* C13: HasSpace(size) is true exactly when the address space has size
\* contiguous free cells, and exactly when WorstFit(size) returns no error.
C13_HasSpace ==
    call.op = "HasSpace" =>
        /\ ret.out = HasFreeStretch(preMem, call.size)
        /\ ret.out = (WorstFit(preMem, call.size).err = NoErr)

\* C13 witness: HasSpace is false although as many cells as asked for are
\* free, the free cells being in shorter runs, one of them the last cell.
C13_Witness ==
    /\ call.op = "HasSpace"
    /\ ret.out = FALSE
    /\ TotalFree(preMem) >= call.size
    /\ LenOf(preMem) = N /\ preMem[N - 1] = NIL

\* What the query of the call c returns on m.
QueryValue(m, c) ==
    CASE c.op = "HasSpace" -> <<HasSpace(m, c.size)>>
      [] c.op = "WorstFit" -> <<WorstFit(m, c.size)>>
      [] c.op = "Layout" -> <<Layout(m)>>
      [] c.op = "TotalFree" -> <<TotalFree(m)>>

\* What the query of the call c has returned.
QueryReturned(c, r) ==
    CASE c.op = "HasSpace" -> <<r.out>>
      [] c.op = "WorstFit" -> <<[start |-> r.start, offset |-> r.offset,
                                 err |-> r.err]>>
      [] c.op = "Layout" -> <<r.out>>
      [] c.op = "TotalFree" -> <<r.out>>

C19_UsablePlacement ==
    (call.op = "WorstFit" /\ call.size >= 0 /\ ret.err = NoErr) =>
        /\ 0 <= ret.start
        /\ ret.start + call.size <= LenOf(preMem)
        /\ \A i \in ret.start..(ret.start + call.size - 1) : preMem[i] = NIL

\* C18: a ReleaseProcess(p) of a process released with success and not
\* allocated since returns the negative-start error of the bounds check with
\* released = false and changes no cell and no process field, whatever was
\* allocated in between.
C18_DoubleRelease ==
    [][(call'.op = "ReleaseProcess" /\ call'.p \in freed) =>
          /\ procs[call'.p].MemoryAddress = -1
          /\ ret'.err = ErrNegativeStart
          /\ ret'.released = FALSE
          /\ mem' = mem
          /\ procs' = procs]_vars

\* C18 witness: the second ReleaseProcess(p) has failed, and a cell is owned
\* by another process allocated while p was released.
C18_Witness ==
    /\ call.op = "ReleaseProcess"
    /\ call.p \in freed
    /\ ret.err = ErrNegativeStart
    /\ \E i \in Cells : mem[i] # NIL /\ mem[i] # call.p
    /\ mem = preMem

\* No caller is between the check and the return of an Allocate.
NonePending == \A p \in Ptrs : ~pend[p].active

\* C20: as long as no call began while another caller was inside Allocate,
\* and every Allocate begun has returned, the recorded range of every
\* allocated process lies within the address space, its cells are exactly the
\* cells the process owns, and the ranges of two allocated processes are
\* disjoint (I1).
C20_SerializedExclusivity ==
    (~raced /\ NonePending) =>
        \A p \in Ptrs :
            procs[p].IsAllocated =>
                /\ RangeInBounds(procs[p].MemoryAddress, procs[p].SizeInKB)
                /\ \A i \in Cells :
                      (mem[i] = p) <=>
                          i \in RangeCells(procs[p].MemoryAddress,
                                           procs[p].SizeInKB)

\* The race of C20: two Allocate calls interleaved, both returned no error,
\* both recorded ranges lie within the address space, and a cell of the
\* recorded range of one process is owned by the other.
C20_Race ==
    /\ raced /\ NonePending
    /\ ret.err = NoErr /\ call.op = "Allocate"
    /\ \E p, q \in Ptrs :
          /\ p # q
          /\ procs[p].IsAllocated /\ procs[q].IsAllocated
          /\ RangeInBounds(procs[p].MemoryAddress, procs[p].SizeInKB)
          /\ RangeInBounds(procs[q].MemoryAddress, procs[q].SizeInKB)
          /\ \E i \in RangeCells(procs[p].MemoryAddress, procs[p].SizeInKB) :
                mem[i] = q

====
